---- MODULE Spec2Model ----
(***************************************************************************)
(* Render lifecycle of one gtk-gl-shaders surface.                         *)
(*                                                                         *)
(* The repository holds two variants of the same lifecycle machine:        *)
(*   "shader_area" : src/shader_area/imp.rs, a GObject subclass that owns  *)
(*                   its Option<GLState> in a RefCell and whose GLArea     *)
(*                   callbacks reach it through a weak reference;          *)
(*   "shaderarea"  : src/shaderarea/mod.rs, a plain GLArea whose           *)
(*                   Arc<Mutex<Option<GlState>>> is captured by the        *)
(*                   callbacks and published in the global STATE_MAP.      *)
(* One surface is modelled; its variant is a construction input.  The GL   *)
(* driver is modelled by the set of live objects, a handle counter and the *)
(* list of GL calls issued by the most recent handler invocation.          *)
(***************************************************************************)
EXTENDS Integers, Sequences, FiniteSets, TLC

(* ---------------------------- bounds ----------------------------------- *)

\* longest list of texture sources given at construction
MaxTex == 3
\* number of realize events one behaviour may contain
MaxRealize == 2

\* FFI constructor calls one process makes
MaxConstruct == 3

\* most components a raw vector value carries
MaxComponents == 5

(* ------------------------ construction inputs -------------------------- *)

VariantA == "shader_area"
VariantB == "shaderarea"
Variants == {VariantA, VariantB}

\* names a caller passes to set_uniform or seeds at construction
Names == {"x", "y"}

SamplerName(i) == IF i = 0 THEN "tex0" ELSE IF i = 1 THEN "tex1"
                  ELSE IF i = 2 THEN "tex2" ELSE IF i = 3 THEN "tex3" ELSE "tex4"

\* the eight-variant tagged union, restricted to the values the model feeds in
Uniform(kind, data) == [kind |-> kind, data |-> data]
Values == { Uniform("Vec3", <<1, 2, 3>>), Uniform("Float", <<5>>) }
NoValue == Uniform("", <<>>)

\* what the driver does with the user's fragment shader
ShaderKinds == {"ok", "frag_fail", "link_fail"}

\* a texture source decodes ("ok") or does not ("bad")
TexKinds == {"ok", "bad"}

RECURSIVE SeqsUpTo(_, _)
SeqsUpTo(S, n) ==
    IF n = 0 THEN { <<>> }
    ELSE LET shorter == SeqsUpTo(S, n - 1)
         IN  shorter \cup { Append(s, e) : s \in { t \in shorter : Len(t) = n - 1 }, e \in S }

\* partial maps Names -> Values
UniformMaps == UNION { [D -> Values] : D \in SUBSET Names }

VARIABLES
    variant,        \* which implementation the surface was built with
    shader,         \* ShaderKinds: outcome of compiling/linking the fragment source
    declared,       \* uniform names (samplers included) the fragment source declares
    texSources,     \* texture sources handed to the constructor, in order
    initUniforms,   \* initial name -> value map handed to the constructor
    alive,          \* shader_area: the ShaderArea object still exists (weak ref upgradable)
    realized,       \* the host toolkit's realized flag of the GLArea
    gl_state,       \* Option<GLState>
    state_map,      \* shaderarea: STATE_MAP has an entry for this widget pointer
    renderQueued,   \* queue_render was called and no render ran since
    nextId,         \* next fresh GL object name
    glObjects,      \* live GL objects
    glDeleted,      \* names handed to a glDelete* call so far
    glLog,          \* GL calls of the most recent handler invocation
    last,           \* the most recent handler invocation
    cycle,          \* GL objects created and deleted since the latest realize began
    realizeCount,   \* realize events so far
    glLoads,        \* times the GL library was opened and its entry points loaded
    constructed,    \* calls of the FFI constructor so far in this process
    rawUniforms,    \* the uniforms argument of the FFI constructor, before parsing
    setCall         \* shaderarea: a set_uniform call in flight on a thread of its own

inputs == <<variant, shader, declared, texSources, initUniforms>>
ffi == <<glLoads, constructed, rawUniforms>>
vars == <<variant, shader, declared, texSources, initUniforms, alive, realized,
          gl_state, state_map, renderQueued, nextId, glObjects, glDeleted,
          glLog, last, cycle, realizeCount, glLoads, constructed, rawUniforms, setCall>>

(* ----------------------------- GLState --------------------------------- *)

EmptyMap == [n \in {} |-> NoValue]

None == [present |-> FALSE, program |-> 0, vao |-> 0, textures |-> <<>>, uniforms |-> EmptyMap]

GLState(program, vao, textures, uniforms) ==
    [present |-> TRUE, program |-> program, vao |-> vao,
     textures |-> textures, uniforms |-> uniforms]

UniformInfo(location, value) == [location |-> location, value |-> value]

\* HashMap::insert
MapInsert(m, k, v) == [n \in (DOMAIN m) \cup {k} |-> IF n = k THEN v ELSE m[n]]

\* the orders in which a HashMap may hand out the keys in S
Orders(S) == { s \in [1..Cardinality(S) -> S] : \A i, j \in 1..Cardinality(S) : i # j => s[i] # s[j] }

\* no shaderarea::set_uniform call is under way
Idle == [pc |-> "idle", name |-> "", value |-> NoValue, location |-> -1]

(* --------------------------- the GL driver ----------------------------- *)

GlObject(kind, id, linked) == [kind |-> kind, id |-> id, linked |-> linked]

Call0(c) == [call |-> c]
Call1(c, a) == [call |-> c, a |-> a]
Call2(c, a, b) == [call |-> c, a |-> a, b |-> b]

\* location the linker gives a declared name
LocOf(name) ==
    CASE name = "x" -> 0
      [] name = "y" -> 1
      [] name = "tex0" -> 2
      [] name = "tex1" -> 3
      [] name = "tex2" -> 4
      [] name = "tex3" -> 5
      [] OTHER -> 6

\* glGetUniformLocation: -1 unless program is a live, linked program declaring name
GetUniformLocation(objs, program, name) ==
    IF /\ \E o \in objs : o.kind = "program" /\ o.id = program /\ o.linked
       /\ name \in declared
    THEN LocOf(name)
    ELSE -1

\* an upload that sends integer values through the float entry points
UniformFnFloat(value) ==
    CASE value.kind = "Float" -> "Uniform1f"
      [] value.kind = "Vec2"  -> "Uniform2f"
      [] value.kind = "Vec3"  -> "Uniform3f"
      [] value.kind = "Vec4"  -> "Uniform4f"
      [] value.kind = "Int"   -> "Uniform1f"
      [] value.kind = "IVec2" -> "Uniform2f"
      [] value.kind = "IVec3" -> "Uniform3f"
      [] value.kind = "IVec4" -> "Uniform4f"

\* the glUniform{1,2,3,4}{f,i} entry point for a value
UniformFn(value) ==
    CASE value.kind = "Float" -> "Uniform1f"
      [] value.kind = "Vec2"  -> "Uniform2f"
      [] value.kind = "Vec3"  -> "Uniform3f"
      [] value.kind = "Vec4"  -> "Uniform4f"
      [] value.kind = "Int"   -> "Uniform1i"
      [] value.kind = "IVec2" -> "Uniform2i"
      [] value.kind = "IVec3" -> "Uniform3i"
      [] value.kind = "IVec4" -> "Uniform4i"

UploadCall(location, value) ==
    [call |-> "Uniform", fn |-> UniformFn(value), location |-> location, args |-> value.data]

\* indices of the calls named c in a call list
CallsOf(log, c) == { k \in 1..Len(log) : log[k].call = c }

RECURSIVE SumOver(_, _)
SumOver(S, f) == IF S = {} THEN 0
                 ELSE LET k == CHOOSE e \in S : TRUE IN f[k] + SumOver(S \ {k}, f)

\* object names a call list hands to glDeleteProgram / glDeleteVertexArrays /
\* glDeleteTextures / glDeleteShader
DeletedIds(log) ==
    { log[k].a : k \in CallsOf(log, "DeleteProgram") \cup CallsOf(log, "DeleteVertexArrays")
                        \cup CallsOf(log, "DeleteShader") }
    \cup UNION { { log[k].b[j] : j \in 1..log[k].a } : k \in CallsOf(log, "DeleteTextures") }

\* per kind, how many objects a call list creates
CreatedCount(log) ==
    [program |-> Cardinality(CallsOf(log, "CreateProgram")),
     vao     |-> Cardinality(CallsOf(log, "GenVertexArrays")),
     texture |-> Cardinality(CallsOf(log, "GenTextures")),
     shader  |-> Cardinality(CallsOf(log, "CreateShader"))]

\* per kind, how many objects a call list deletes
DeletedCount(log) ==
    [program |-> Cardinality(CallsOf(log, "DeleteProgram")),
     vao     |-> Cardinality(CallsOf(log, "DeleteVertexArrays")),
     texture |-> SumOver(CallsOf(log, "DeleteTextures"), [k \in 1..Len(log) |-> log[k].a]),
     shader  |-> Cardinality(CallsOf(log, "DeleteShader"))]

AddCount(c, d) ==
    [program |-> c.program + d.program, vao |-> c.vao + d.vao,
     texture |-> c.texture + d.texture, shader |-> c.shader + d.shader]

\* the allocation record a realize starts: err is whether that realize met a context error
NewCycle(err, log) ==
    [realizeErr |-> err, created |-> CreatedCount(log), deleted |-> DeletedCount(log)]

\* the allocation record after a later handler issued log
Account(c, log) ==
    [c EXCEPT !.created = AddCount(@, CreatedCount(log)),
              !.deleted = AddCount(@, DeletedCount(log))]

\* a handler invocation: its arguments, whether the context reported an error, and what
\* it returned (for a handler returning nothing, the branch it left through)
LastOp(op, err, name, value, result) ==
    [op |-> op, err |-> err, name |-> name, value |-> value, result |-> result]

(* ------------------------------- Init ---------------------------------- *)

\* sampler names tex0 .. tex{MaxTex-1}
AllSamplers == { SamplerName(i) : i \in 0..(MaxTex - 1) }

\* the uniform set-up used while the texture list varies: x is declared by the
\* shader and seeded, y is seeded but not declared
FixedUniforms == [n \in Names |-> IF n = "x" THEN Uniform("Vec3", <<1, 2, 3>>)
                                  ELSE Uniform("Float", <<5>>)]

\* a null uniforms argument: the constructor starts from an empty map
NullUniforms == [kind |-> "null", entries |-> <<>>]

\* loads done by the one constructor call that built the surface: the shaderarea
\* constructor calls init_opengl, the shader_area constructor loads nothing
LoadsAfterNew == IF variant = VariantB THEN 1 ELSE 0

\* construction inputs: every texture list with one uniform set-up
TextureInputs ==
    /\ shader \in ShaderKinds
    /\ texSources \in SeqsUpTo(TexKinds, MaxTex)
    /\ declared \in { {"x"}, {"x"} \cup AllSamplers }
    /\ initUniforms = FixedUniforms

\* construction inputs: every uniform set-up with at most one texture
UniformInputs ==
    /\ shader = "ok"
    /\ texSources \in SeqsUpTo({"ok"}, 1)
    /\ declared \in { D \cup {"tex0"} : D \in SUBSET Names } \cup {{}}
    /\ initUniforms \in UniformMaps

Init ==
    /\ variant \in Variants
    /\ (TextureInputs \/ UniformInputs)
    /\ alive = TRUE
    /\ realized = FALSE
    /\ gl_state = None
    /\ state_map = FALSE
    /\ renderQueued = FALSE
    /\ nextId = 1
    /\ glObjects = {}
    /\ glDeleted = {}
    /\ glLog = <<>>
    /\ last = LastOp("new", FALSE, "", NoValue, "")
    /\ cycle = NewCycle(FALSE, <<>>)
    /\ realizeCount = 0
    /\ glLoads = LoadsAfterNew
    /\ constructed = 1
    /\ rawUniforms = NullUniforms
    /\ setCall = Idle

(* ------------------------- Shader Compiler ----------------------------- *)

\* compile_shader: the stage object is returned whether or not it compiled
compile_shader(kind, ok, id) ==
    [shader |-> id,
     log |-> <<Call2("CreateShader", kind, id), Call1("ShaderSource", id),
               Call1("CompileShader", id), Call1("GetShaderiv", id)>>
             \o (IF ok THEN <<>> ELSE <<Call1("GetShaderInfoLog", id)>>)]

\* a link_program that hands back 0 when the stage or the link failed
link_programZero(id) ==
    LET vert == compile_shader("VERTEX_SHADER", TRUE, id)
        frag == compile_shader("FRAGMENT_SHADER", shader # "frag_fail", id + 1)
        program == id + 2
        ok == shader = "ok"
    IN  [program |-> IF ok THEN program ELSE 0,
         linked |-> ok,
         next |-> id + 3,
         deleted |-> {vert.shader, frag.shader},
         log |-> vert.log \o frag.log \o
                 <<Call1("CreateProgram", program),
                   Call2("AttachShader", program, vert.shader),
                   Call2("AttachShader", program, frag.shader),
                   Call1("LinkProgram", program),
                   Call1("GetProgramiv", program)>>
                 \o (IF ok THEN <<>> ELSE <<Call1("GetProgramInfoLog", program)>>)
                 \o <<Call1("DeleteShader", vert.shader),
                      Call1("DeleteShader", frag.shader)>>]

\* a link_program that returns early, stages still alive, when the link failed
link_programLeak(id) ==
    LET vert == compile_shader("VERTEX_SHADER", TRUE, id)
        frag == compile_shader("FRAGMENT_SHADER", shader # "frag_fail", id + 1)
        program == id + 2
        ok == shader = "ok"
    IN  [program |-> program,
         linked |-> ok,
         next |-> id + 3,
         deleted |-> IF ok THEN {vert.shader, frag.shader} ELSE {},
         log |-> vert.log \o frag.log \o
                 <<Call1("CreateProgram", program),
                   Call2("AttachShader", program, vert.shader),
                   Call2("AttachShader", program, frag.shader),
                   Call1("LinkProgram", program),
                   Call1("GetProgramiv", program)>>
                 \o (IF ok THEN <<Call1("DeleteShader", vert.shader),
                                  Call1("DeleteShader", frag.shader)>>
                     ELSE <<Call1("GetProgramInfoLog", program)>>)]

\* link_program: two stages, one program, both stages deleted on every path
link_program(id) ==
    LET vert == compile_shader("VERTEX_SHADER", TRUE, id)
        frag == compile_shader("FRAGMENT_SHADER", shader # "frag_fail", id + 1)
        program == id + 2
        ok == shader = "ok"
    IN  [program |-> program,
         linked |-> ok,
         next |-> id + 3,
         deleted |-> {vert.shader, frag.shader},
         log |-> vert.log \o frag.log \o
                 <<Call1("CreateProgram", program),
                   Call2("AttachShader", program, vert.shader),
                   Call2("AttachShader", program, frag.shader),
                   Call1("LinkProgram", program),
                   Call1("GetProgramiv", program)>>
                 \o (IF ok THEN <<>> ELSE <<Call1("GetProgramInfoLog", program)>>)
                 \o <<Call1("DeleteShader", vert.shader),
                      Call1("DeleteShader", frag.shader)>>]

\* a vertex stage that takes x from bit 1 and y from bit 0 of the vertex index
VertexPosSwapped(id) == <<(id \div 2) % 2, id % 2>>

\* build_vertex_shader: pos = vec2(gl_VertexID & 1, (gl_VertexID >> 1) & 1)
VertexPos(id) == <<id % 2, (id \div 2) % 2>>

\* build_vertex_shader: uv = pos
VertexUv(id) == VertexPos(id)

\* build_vertex_shader: gl_Position.xy = pos * 2.0 - 1.0
VertexClip(id) == <<VertexPos(id)[1] * 2 - 1, VertexPos(id)[2] * 2 - 1>>

\* the vertex indexes DrawArrays(mode, first, count) runs the vertex stage on
VertexIds(draw) == draw.first..(draw.first + draw.count - 1)

(* ------------------------- Texture Uploader ---------------------------- *)

\* the GL calls that create texture id on texture unit index and fill it
UploadCalls(index, id) ==
    <<Call1("GenTextures", id), Call1("ActiveTexture", index), Call1("BindTexture", id),
      Call1("TexParameteri", "TEXTURE_MIN_FILTER"), Call1("TexParameteri", "TEXTURE_MAG_FILTER"),
      Call1("TexParameteri", "TEXTURE_WRAP_S"), Call1("TexParameteri", "TEXTURE_WRAP_T"),
      Call1("TexImage2D", id)>>

\* shader_area load_texture(index, path): None when the image does not decode
load_texture(index, path, id) ==
    IF path = "bad"
    THEN [some |-> FALSE, id |-> 0, log |-> <<>>]
    ELSE [some |-> TRUE, id |-> id, log |-> UploadCalls(index, id)]

\* sets sampler tex{i} to unit i when the program declares it
BindSampler(objs, program, i) ==
    LET loc == GetUniformLocation(objs, program, SamplerName(i))
    IN  <<Call2("GetUniformLocation", program, SamplerName(i))>>
        \o (IF loc >= 0 THEN <<[call |-> "Uniform", fn |-> "Uniform1i",
                                location |-> loc, args |-> <<i>>]>>
            ELSE <<>>)

\* a texture loop that gives up at the first source that does not decode
RECURSIVE TextureLoopAAbort(_, _, _, _, _)
TextureLoopAAbort(objs, program, textures, i, acc) ==
    IF i >= Len(textures) THEN acc
    ELSE LET tex == load_texture(i, textures[i + 1], acc.next)
         IN  IF ~tex.some
             THEN acc
             ELSE TextureLoopAAbort(objs, program, textures, i + 1,
                      [ids |-> Append(acc.ids, tex.id),
                       next |-> acc.next + 1,
                       log |-> acc.log \o tex.log \o BindSampler(objs, program, i)])

\* shader_area texture loop: i counts the sources, failed ones included
RECURSIVE TextureLoopA(_, _, _, _, _)
TextureLoopA(objs, program, textures, i, acc) ==
    IF i >= Len(textures) THEN acc
    ELSE LET tex == load_texture(i, textures[i + 1], acc.next)
         IN  IF ~tex.some
             THEN TextureLoopA(objs, program, textures, i + 1, acc)
             ELSE TextureLoopA(objs, program, textures, i + 1,
                      [ids |-> Append(acc.ids, tex.id),
                       next |-> acc.next + 1,
                       log |-> acc.log \o tex.log \o BindSampler(objs, program, i)])

\* shaderarea FFI constructor: sources that do not decode are dropped before construction
FfiLoadTextures(paths) == SelectSeq(paths, LAMBDA p : p = "ok")

\* shaderarea texture loop: every TextureData is uploaded
RECURSIVE TextureLoopB(_, _, _, _, _)
TextureLoopB(objs, program, textures, i, acc) ==
    IF i >= Len(textures) THEN acc
    ELSE TextureLoopB(objs, program, textures, i + 1,
             [ids |-> Append(acc.ids, acc.next),
              next |-> acc.next + 1,
              log |-> acc.log \o UploadCalls(i, acc.next) \o BindSampler(objs, program, i)])

TextureObjects(ids) == { GlObject("texture", ids[k], FALSE) : k \in 1..Len(ids) }

(* ------------------------- Uniform Registry ---------------------------- *)

\* a seeding that stores every initial name with whatever the lookup returned
SeedUniformsUnchecked(objs, program, order) ==
    [map |-> [n \in DOMAIN initUniforms
                |-> UniformInfo(GetUniformLocation(objs, program, n), initUniforms[n])],
     log |-> [k \in 1..Len(order) |-> Call2("GetUniformLocation", program, order[k])]]

\* seeding at realize: only names that resolve get an entry
SeedUniforms(objs, program, order) ==
    [map |-> [n \in { m \in DOMAIN initUniforms : GetUniformLocation(objs, program, m) >= 0 }
                |-> UniformInfo(GetUniformLocation(objs, program, n), initUniforms[n])],
     log |-> [k \in 1..Len(order) |-> Call2("GetUniformLocation", program, order[k])]]

\* an apply_uniforms that stops after the first entry
apply_uniformsAFirst(state, order) ==
    <<Call1("UseProgram", state.program)>>
    \o [k \in 1..(IF Len(order) > 1 THEN 1 ELSE Len(order))
          |-> UploadCall(state.uniforms[order[k]].location, state.uniforms[order[k]].value)]

\* shader_area apply_uniforms: uploads at the cached location
apply_uniformsA(state, order) ==
    <<Call1("UseProgram", state.program)>>
    \o [k \in 1..Len(order) |-> UploadCall(state.uniforms[order[k]].location,
                                           state.uniforms[order[k]].value)]

RECURSIVE apply_uniformsB_loop(_, _, _, _)
apply_uniformsB_loop(objs, state, order, k) ==
    IF k > Len(order) THEN <<>>
    ELSE LET loc == GetUniformLocation(objs, state.program, order[k])
         IN  <<Call2("GetUniformLocation", state.program, order[k])>>
             \o (IF loc >= 0 THEN <<UploadCall(loc, state.uniforms[order[k]].value)>> ELSE <<>>)
             \o apply_uniformsB_loop(objs, state, order, k + 1)

\* shaderarea apply_uniforms: looks the location up again for every entry
apply_uniformsB(objs, state, order) ==
    <<Call1("UseProgram", state.program)>> \o apply_uniformsB_loop(objs, state, order, 1)

(* ----------------------------- realize --------------------------------- *)

\* a realize handler that builds the objects and stores nothing
BuildStateDropped(loopResult, lp, vao, seed) == None

\* a realize handler that stores the state before the vertex array exists
BuildStateNoVao(loopResult, lp, vao, seed) ==
    GLState(lp.program, 0, loopResult.ids, seed.map)

\* a realize handler that keeps the registry entries of a state it finds in place
BuildStateCarry(loopResult, lp, vao, seed) ==
    GLState(lp.program, vao, loopResult.ids,
            [n \in DOMAIN seed.map \cup DOMAIN gl_state.uniforms
               |-> IF n \in DOMAIN gl_state.uniforms THEN gl_state.uniforms[n] ELSE seed.map[n]])

\* everything a realize handler builds before it stores the state
BuildState(loopResult, lp, vao, seed) ==
    GLState(lp.program, vao, loopResult.ids, seed.map)

\* a realize handler that goes on building after the context reported an error
RealizeAIgnoreError ==
    /\ variant = VariantA
    /\ ~realized
    /\ realizeCount < MaxRealize
    /\ realized' = TRUE
    /\ realizeCount' = realizeCount + 1
    /\ \E err \in BOOLEAN :
         \E order \in Orders(DOMAIN initUniforms) :
              LET lp == link_program(nextId)
                  vao == lp.next
                  objs == glObjects \cup {GlObject("program", lp.program, lp.linked),
                                          GlObject("vao", vao, FALSE)}
                  tl == TextureLoopA(objs, lp.program, texSources, 0,
                                     [ids |-> <<>>, next |-> vao + 1, log |-> <<>>])
                  seed == SeedUniforms(objs, lp.program, order)
              IN  /\ glLog' = lp.log
                              \o <<Call1("GenVertexArrays", vao), Call1("BindVertexArray", vao),
                                   Call1("UseProgram", lp.program)>>
                              \o tl.log \o seed.log
                  /\ glObjects' = objs \cup TextureObjects(tl.ids)
                  /\ glDeleted' = glDeleted \cup DeletedIds(glLog')
                  /\ nextId' = tl.next
                  /\ gl_state' = IF alive THEN BuildState(tl, lp, vao, seed) ELSE gl_state
                  /\ last' = LastOp("realize", err, "", NoValue, "")
    /\ cycle' = NewCycle(last'.err, glLog')
    /\ UNCHANGED <<inputs, ffi, setCall, alive, state_map, renderQueued>>

\* the realize signal handler of shader_area
RealizeA ==
    /\ variant = VariantA
    /\ ~realized
    /\ realizeCount < MaxRealize
    /\ realized' = TRUE
    /\ realizeCount' = realizeCount + 1
    /\ \E err \in BOOLEAN :
         IF err
         THEN /\ glLog' = <<>>
              /\ last' = LastOp("realize", TRUE, "", NoValue, "")
              /\ UNCHANGED <<gl_state, nextId, glObjects, glDeleted>>
         ELSE \E order \in Orders(DOMAIN initUniforms) :
              LET lp == link_program(nextId)
                  vao == lp.next
                  objs == glObjects \cup {GlObject("program", lp.program, lp.linked),
                                          GlObject("vao", vao, FALSE)}
                  tl == TextureLoopA(objs, lp.program, texSources, 0,
                                     [ids |-> <<>>, next |-> vao + 1, log |-> <<>>])
                  seed == SeedUniforms(objs, lp.program, order)
              IN  /\ glLog' = lp.log
                              \o <<Call1("GenVertexArrays", vao), Call1("BindVertexArray", vao),
                                   Call1("UseProgram", lp.program)>>
                              \o tl.log \o seed.log
                  /\ glObjects' = objs \cup TextureObjects(tl.ids)
                  /\ glDeleted' = glDeleted \cup DeletedIds(glLog')
                  /\ nextId' = tl.next
                  /\ gl_state' = IF alive THEN BuildState(tl, lp, vao, seed) ELSE gl_state
                  /\ last' = LastOp("realize", FALSE, "", NoValue, "")
    /\ cycle' = NewCycle(last'.err, glLog')
    /\ UNCHANGED <<inputs, ffi, setCall, alive, state_map, renderQueued>>

RealizeB ==
    /\ variant = VariantB
    /\ ~realized
    /\ realizeCount < MaxRealize
    /\ realized' = TRUE
    /\ realizeCount' = realizeCount + 1
    /\ \E err \in BOOLEAN :
         IF err
         THEN /\ glLog' = <<>>
              /\ last' = LastOp("realize", TRUE, "", NoValue, "")
              /\ UNCHANGED <<gl_state, state_map, nextId, glObjects, glDeleted>>
         ELSE \E order \in Orders(DOMAIN initUniforms) :
              LET lp == link_program(nextId)
                  vao == lp.next
                  objs == glObjects \cup {GlObject("program", lp.program, lp.linked),
                                          GlObject("vao", vao, FALSE)}
                  tl == TextureLoopB(objs, lp.program, FfiLoadTextures(texSources), 0,
                                     [ids |-> <<>>, next |-> vao + 1, log |-> <<>>])
                  seed == SeedUniforms(objs, lp.program, order)
              IN  /\ glLog' = lp.log
                              \o <<Call1("GenVertexArrays", vao), Call1("BindVertexArray", vao),
                                   Call1("UseProgram", lp.program)>>
                              \o tl.log \o <<Call1("UseProgram", 0)>> \o seed.log
                  /\ glObjects' = objs \cup TextureObjects(tl.ids)
                  /\ glDeleted' = glDeleted \cup DeletedIds(glLog')
                  /\ nextId' = tl.next
                  /\ gl_state' = BuildState(tl, lp, vao, seed)
                  /\ state_map' = TRUE
                  /\ last' = LastOp("realize", FALSE, "", NoValue, "")
    /\ cycle' = NewCycle(last'.err, glLog')
    /\ UNCHANGED <<inputs, ffi, setCall, alive, renderQueued>>

(* ---------------------------- unrealize -------------------------------- *)

\* an unrealize handler that forgets the textures
DeleteCallsNoTextures(state) ==
    <<Call1("DeleteProgram", state.program), Call1("DeleteVertexArrays", state.vao)>>

\* an unrealize handler that forgets the program
DeleteCallsNoProgram(state) ==
    <<Call1("DeleteVertexArrays", state.vao)>>
    \o (IF state.textures # <<>>
        THEN <<Call2("DeleteTextures", Len(state.textures), state.textures)>>
        ELSE <<>>)

\* the delete calls of an unrealize handler for the state it took
DeleteCalls(state) ==
    <<Call1("DeleteProgram", state.program), Call1("DeleteVertexArrays", state.vao)>>
    \o (IF state.textures # <<>>
        THEN <<Call2("DeleteTextures", Len(state.textures), state.textures)>>
        ELSE <<>>)

\* an unrealize handler that deletes the objects of the state and leaves the state in place
UnrealizeAKeepState ==
    /\ variant = VariantA
    /\ realized
    /\ realized' = FALSE
    /\ \E err \in BOOLEAN :
         /\ last' = LastOp("unrealize", err, "", NoValue, "")
         /\ IF ~err /\ alive /\ gl_state.present
            THEN /\ glLog' = DeleteCalls(gl_state)
                 /\ gl_state' = gl_state
                 /\ glObjects' = { o \in glObjects : o.id \notin DeletedIds(glLog') }
                 /\ glDeleted' = glDeleted \cup DeletedIds(glLog')
            ELSE /\ glLog' = <<>>
                 /\ UNCHANGED <<gl_state, glObjects, glDeleted>>
    /\ cycle' = Account(cycle, glLog')
    /\ UNCHANGED <<inputs, ffi, setCall, alive, state_map, renderQueued, nextId, realizeCount>>

UnrealizeA ==
    /\ variant = VariantA
    /\ realized
    /\ realized' = FALSE
    /\ \E err \in BOOLEAN :
         /\ last' = LastOp("unrealize", err, "", NoValue, "")
         /\ IF ~err /\ alive /\ gl_state.present
            THEN /\ glLog' = DeleteCalls(gl_state)
                 /\ gl_state' = None
                 /\ glObjects' = { o \in glObjects : o.id \notin DeletedIds(glLog') }
                 /\ glDeleted' = glDeleted \cup DeletedIds(glLog')
            ELSE /\ glLog' = <<>>
                 /\ UNCHANGED <<gl_state, glObjects, glDeleted>>
    /\ cycle' = Account(cycle, glLog')
    /\ UNCHANGED <<inputs, ffi, setCall, alive, state_map, renderQueued, nextId, realizeCount>>

UnrealizeB ==
    /\ variant = VariantB
    /\ realized
    /\ realized' = FALSE
    /\ \E err \in BOOLEAN :
         /\ last' = LastOp("unrealize", err, "", NoValue, "")
         /\ IF err
            THEN /\ glLog' = <<>>
                 /\ UNCHANGED <<gl_state, state_map, glObjects, glDeleted>>
            ELSE /\ state_map' = FALSE
                 /\ IF gl_state.present
                    THEN /\ glLog' = DeleteCalls(gl_state)
                         /\ gl_state' = None
                         /\ glObjects' = { o \in glObjects : o.id \notin DeletedIds(glLog') }
                         /\ glDeleted' = glDeleted \cup DeletedIds(glLog')
                    ELSE /\ glLog' = <<>>
                         /\ UNCHANGED <<gl_state, glObjects, glDeleted>>
    /\ cycle' = Account(cycle, glLog')
    /\ UNCHANGED <<inputs, ffi, setCall, alive, renderQueued, nextId, realizeCount>>

(* ------------------------------ render --------------------------------- *)

\* a render handler that never switches the texture unit
RECURSIVE BindTexturesUnit0(_, _)
BindTexturesUnit0(textures, i) ==
    IF i >= Len(textures) THEN <<>>
    ELSE <<Call1("ActiveTexture", 0), Call1("BindTexture", textures[i + 1])>>
         \o BindTexturesUnit0(textures, i + 1)

\* binds of the render handler: texture at position i goes to unit i
RECURSIVE BindTextures(_, _)
BindTextures(textures, i) ==
    IF i >= Len(textures) THEN <<>>
    ELSE <<Call1("ActiveTexture", i), Call1("BindTexture", textures[i + 1])>>
         \o BindTextures(textures, i + 1)

\* one frame of an Active surface; alpha is the clear colour's alpha
DrawFrame(uniformCalls, state, alpha) ==
    <<[call |-> "ClearColor", args |-> <<0, 0, 0, alpha>>], Call1("Clear", "COLOR_BUFFER_BIT")>>
    \o uniformCalls
    \o <<Call1("BindVertexArray", state.vao)>>
    \o BindTextures(state.textures, 0)
    \o <<[call |-> "DrawArrays", mode |-> "TRIANGLE_STRIP", first |-> 0, count |-> 4],
         Call0("Flush")>>

\* a render handler that draws without looking at the context error
RenderAIgnoreError ==
    /\ variant = VariantA
    /\ realized
    /\ renderQueued' = FALSE
    /\ \E err \in BOOLEAN :
         /\ last' = LastOp("render", err, "", NoValue, "Stop")
         /\ IF alive /\ gl_state.present
            THEN \E order \in Orders(DOMAIN gl_state.uniforms) :
                     glLog' = DrawFrame(apply_uniformsA(gl_state, order), gl_state, 0)
            ELSE glLog' = <<>>
    /\ cycle' = Account(cycle, glLog')
    /\ UNCHANGED <<inputs, ffi, setCall, alive, realized, gl_state, state_map, nextId, glObjects,
                   glDeleted, realizeCount>>

\* a render handler that lets the signal propagate when it drew nothing
RenderAProceed ==
    /\ variant = VariantA
    /\ realized
    /\ renderQueued' = FALSE
    /\ \E err \in BOOLEAN :
         IF ~err /\ alive /\ gl_state.present
         THEN /\ last' = LastOp("render", err, "", NoValue, "Stop")
              /\ \E order \in Orders(DOMAIN gl_state.uniforms) :
                     glLog' = DrawFrame(apply_uniformsA(gl_state, order), gl_state, 0)
         ELSE /\ last' = LastOp("render", err, "", NoValue, "Proceed")
              /\ glLog' = <<>>
    /\ cycle' = Account(cycle, glLog')
    /\ UNCHANGED <<inputs, ffi, setCall, alive, realized, gl_state, state_map, nextId, glObjects,
                   glDeleted, realizeCount>>

\* a render handler that empties the registry once it has uploaded it
RenderAConsume ==
    /\ variant = VariantA
    /\ realized
    /\ renderQueued' = FALSE
    /\ \E err \in BOOLEAN :
         /\ last' = LastOp("render", err, "", NoValue, "Stop")
         /\ IF ~err /\ alive /\ gl_state.present
            THEN /\ \E order \in Orders(DOMAIN gl_state.uniforms) :
                        glLog' = DrawFrame(apply_uniformsA(gl_state, order), gl_state, 0)
                 /\ gl_state' = [gl_state EXCEPT !.uniforms = EmptyMap]
            ELSE /\ glLog' = <<>>
                 /\ UNCHANGED gl_state
    /\ cycle' = Account(cycle, glLog')
    /\ UNCHANGED <<inputs, ffi, setCall, alive, realized, state_map, nextId, glObjects,
                   glDeleted, realizeCount>>

\* a render handler that clears the buffer before it looks for the state
RenderAClearFirst ==
    /\ variant = VariantA
    /\ realized
    /\ renderQueued' = FALSE
    /\ \E err \in BOOLEAN :
         /\ last' = LastOp("render", err, "", NoValue, "Stop")
         /\ IF ~err /\ alive /\ gl_state.present
            THEN \E order \in Orders(DOMAIN gl_state.uniforms) :
                     glLog' = DrawFrame(apply_uniformsA(gl_state, order), gl_state, 0)
            ELSE IF ~err
                 THEN glLog' = <<[call |-> "ClearColor", args |-> <<0, 0, 0, 0>>],
                                 Call1("Clear", "COLOR_BUFFER_BIT")>>
                 ELSE glLog' = <<>>
    /\ cycle' = Account(cycle, glLog')
    /\ UNCHANGED <<inputs, ffi, setCall, alive, realized, gl_state, state_map, nextId, glObjects,
                   glDeleted, realizeCount>>

\* the render signal handler: make_current, error check, one frame, Propagation::Stop
RenderA ==
    /\ variant = VariantA
    /\ realized
    /\ renderQueued' = FALSE
    /\ \E err \in BOOLEAN :
         /\ last' = LastOp("render", err, "", NoValue, "Stop")
         /\ IF ~err /\ alive /\ gl_state.present
            THEN \E order \in Orders(DOMAIN gl_state.uniforms) :
                     glLog' = DrawFrame(apply_uniformsA(gl_state, order), gl_state, 0)
            ELSE glLog' = <<>>
    /\ cycle' = Account(cycle, glLog')
    /\ UNCHANGED <<inputs, ffi, setCall, alive, realized, gl_state, state_map, nextId, glObjects,
                   glDeleted, realizeCount>>

RenderB ==
    /\ variant = VariantB
    /\ realized
    /\ renderQueued' = FALSE
    /\ \E err \in BOOLEAN :
         /\ last' = LastOp("render", err, "", NoValue, "Stop")
         /\ IF ~err /\ gl_state.present
            THEN \E order \in Orders(DOMAIN gl_state.uniforms) :
                     glLog' = DrawFrame(apply_uniformsB(glObjects, gl_state, order), gl_state, 1)
            ELSE glLog' = <<>>
    /\ cycle' = Account(cycle, glLog')
    /\ UNCHANGED <<inputs, ffi, setCall, alive, realized, gl_state, state_map, nextId, glObjects,
                   glDeleted, realizeCount>>

(* ---------------------------- set_uniform ------------------------------ *)

\* a resolver that turns a failed lookup into location 0
ResolveLocationClamped(objs, state, name) ==
    IF name \in DOMAIN state.uniforms
    THEN state.uniforms[name].location
    ELSE IF GetUniformLocation(objs, state.program, name) < 0 THEN 0
         ELSE GetUniformLocation(objs, state.program, name)

\* location for a set: the cached one when the name is known, a fresh lookup otherwise
ResolveLocation(objs, state, name) ==
    IF name \in DOMAIN state.uniforms
    THEN state.uniforms[name].location
    ELSE GetUniformLocation(objs, state.program, name)

\* a store that keeps the value of a name it already knows
StoreUniformKeepOld(state, name, location, value) ==
    IF name \in DOMAIN state.uniforms THEN state
    ELSE [state EXCEPT !.uniforms = MapInsert(@, name, UniformInfo(location, value))]

\* the registry after a successful set
StoreUniform(state, name, location, value) ==
    [state EXCEPT !.uniforms = MapInsert(@, name, UniformInfo(location, value))]

LookupLog(state, name) ==
    IF name \in DOMAIN state.uniforms THEN <<>>
    ELSE <<Call2("GetUniformLocation", state.program, name)>>

\* a set_uniform that asks for a redraw although it dropped the write
SetUniformAQueued(name, value) ==
    /\ variant = VariantA
    /\ alive
    /\ IF ~gl_state.present
       THEN /\ last' = LastOp("set_uniform", FALSE, name, value, "not_rendered")
            /\ glLog' = <<>>
            /\ renderQueued' = TRUE
            /\ UNCHANGED gl_state
       ELSE \E err \in BOOLEAN :
            IF err
            THEN /\ last' = LastOp("set_uniform", TRUE, name, value, "error")
                 /\ glLog' = <<>>
                 /\ UNCHANGED <<gl_state, renderQueued>>
            ELSE LET location == ResolveLocation(glObjects, gl_state, name)
                 IN  /\ glLog' = LookupLog(gl_state, name)
                     /\ IF location < 0
                        THEN /\ last' = LastOp("set_uniform", FALSE, name, value, "unused")
                             /\ UNCHANGED <<gl_state, renderQueued>>
                        ELSE /\ last' = LastOp("set_uniform", FALSE, name, value, "stored")
                             /\ gl_state' = StoreUniform(gl_state, name, location, value)
                             /\ renderQueued' = TRUE
    /\ cycle' = Account(cycle, glLog')
    /\ UNCHANGED <<inputs, ffi, setCall, alive, realized, state_map, nextId, glObjects, glDeleted, realizeCount>>

\* a set_uniform that goes on to the lookup and the write after the context reported an error
SetUniformAIgnoreError(name, value) ==
    /\ variant = VariantA
    /\ alive
    /\ IF ~gl_state.present
       THEN /\ last' = LastOp("set_uniform", FALSE, name, value, "not_rendered")
            /\ glLog' = <<>>
            /\ UNCHANGED <<gl_state, renderQueued>>
       ELSE \E err \in BOOLEAN :
            LET location == ResolveLocation(glObjects, gl_state, name)
            IN  /\ glLog' = LookupLog(gl_state, name)
                /\ IF location < 0
                   THEN /\ last' = LastOp("set_uniform", err, name, value, "unused")
                        /\ UNCHANGED <<gl_state, renderQueued>>
                   ELSE /\ last' = LastOp("set_uniform", err, name, value, "stored")
                        /\ gl_state' = StoreUniform(gl_state, name, location, value)
                        /\ renderQueued' = TRUE
    /\ cycle' = Account(cycle, glLog')
    /\ UNCHANGED <<inputs, ffi, setCall, alive, realized, state_map, nextId, glObjects, glDeleted, realizeCount>>

\* ShaderArea::set_uniform
SetUniformA(name, value) ==
    /\ variant = VariantA
    /\ alive
    /\ IF ~gl_state.present
       THEN /\ last' = LastOp("set_uniform", FALSE, name, value, "not_rendered")
            /\ glLog' = <<>>
            /\ UNCHANGED <<gl_state, renderQueued>>
       ELSE \E err \in BOOLEAN :
            IF err
            THEN /\ last' = LastOp("set_uniform", TRUE, name, value, "error")
                 /\ glLog' = <<>>
                 /\ UNCHANGED <<gl_state, renderQueued>>
            ELSE LET location == ResolveLocation(glObjects, gl_state, name)
                 IN  /\ glLog' = LookupLog(gl_state, name)
                     /\ IF location < 0
                        THEN /\ last' = LastOp("set_uniform", FALSE, name, value, "unused")
                             /\ UNCHANGED <<gl_state, renderQueued>>
                        ELSE /\ last' = LastOp("set_uniform", FALSE, name, value, "stored")
                             /\ gl_state' = StoreUniform(gl_state, name, location, value)
                             /\ renderQueued' = TRUE
    /\ cycle' = Account(cycle, glLog')
    /\ UNCHANGED <<inputs, ffi, setCall, alive, realized, state_map, nextId, glObjects, glDeleted, realizeCount>>

\* a set_uniform that reports success for a name the program does not declare
SetUniformBTrue(name, value) ==
    /\ variant = VariantB
    /\ IF ~state_map \/ ~gl_state.present
       THEN /\ last' = LastOp("set_uniform", FALSE, name, value, "false")
            /\ glLog' = <<>>
            /\ UNCHANGED gl_state
       ELSE LET location == ResolveLocation(glObjects, gl_state, name)
            IN  /\ glLog' = LookupLog(gl_state, name)
                /\ IF location < 0
                   THEN /\ last' = LastOp("set_uniform", FALSE, name, value, "true")
                        /\ UNCHANGED gl_state
                   ELSE /\ last' = LastOp("set_uniform", FALSE, name, value, "true")
                        /\ gl_state' = StoreUniform(gl_state, name, location, value)
    /\ cycle' = Account(cycle, glLog')
    /\ UNCHANGED <<inputs, ffi, setCall, alive, realized, state_map, renderQueued, nextId, glObjects,
                   glDeleted, realizeCount>>

\* shaderarea::set_uniform
SetUniformB(name, value) ==
    /\ variant = VariantB
    /\ IF ~state_map \/ ~gl_state.present
       THEN /\ last' = LastOp("set_uniform", FALSE, name, value, "false")
            /\ glLog' = <<>>
            /\ UNCHANGED gl_state
       ELSE LET location == ResolveLocation(glObjects, gl_state, name)
            IN  /\ glLog' = LookupLog(gl_state, name)
                /\ IF location < 0
                   THEN /\ last' = LastOp("set_uniform", FALSE, name, value, "false")
                        /\ UNCHANGED gl_state
                   ELSE /\ last' = LastOp("set_uniform", FALSE, name, value, "true")
                        /\ gl_state' = StoreUniform(gl_state, name, location, value)
    /\ cycle' = Account(cycle, glLog')
    /\ UNCHANGED <<inputs, ffi, setCall, alive, realized, state_map, renderQueued, nextId, glObjects,
                   glDeleted, realizeCount>>

\* gtk_gl_shaders_set_uniform* called with a null area, name or value: returns false
\* before it touches the widget (the name "" stands for the missing argument)
FfiSetUniformNull ==
    /\ variant = VariantB
    /\ last' = LastOp("set_uniform", FALSE, "", NoValue, "false")
    /\ glLog' = <<>>
    /\ UNCHANGED <<inputs, ffi, setCall, alive, realized, gl_state, state_map, renderQueued, nextId,
                   glObjects, glDeleted, cycle, realizeCount>>

(* ------------- shaderarea::set_uniform, one lock at a time -------------- *)

\* shaderarea::set_uniform called on a thread other than the one that runs the widget's
\* handlers: each action is one critical section of the call, and a handler of the widget
\* may run between two of them

\* the STATE_MAP read lock: the call leaves with false or with a clone of the Arc
SetUniformB_Lookup(name, value) ==
    /\ variant = VariantB
    /\ setCall.pc = "idle"
    /\ IF ~state_map
       THEN /\ last' = LastOp("set_uniform", FALSE, name, value, "false")
            /\ glLog' = <<>>
            /\ UNCHANGED setCall
       ELSE /\ setCall' = [pc |-> "found", name |-> name, value |-> value, location |-> -1]
            /\ UNCHANGED <<last, glLog>>
    /\ UNCHANGED <<inputs, ffi, alive, realized, gl_state, state_map, renderQueued, nextId,
                   glObjects, glDeleted, cycle, realizeCount>>

\* the first lock of the state: presence check and location; the guard is dropped at the end
SetUniformB_Check ==
    /\ variant = VariantB
    /\ setCall.pc = "found"
    /\ IF ~gl_state.present
       THEN /\ last' = LastOp("set_uniform", FALSE, setCall.name, setCall.value, "false")
            /\ glLog' = <<>>
            /\ setCall' = Idle
       ELSE LET location == ResolveLocation(glObjects, gl_state, setCall.name)
            IN  /\ glLog' = LookupLog(gl_state, setCall.name)
                /\ IF location < 0
                   THEN /\ last' = LastOp("set_uniform", FALSE, setCall.name, setCall.value,
                                          "false")
                        /\ setCall' = Idle
                   ELSE /\ setCall' = [setCall EXCEPT !.pc = "unlocked",
                                                      !.location = location]
                        /\ UNCHANGED last
    /\ cycle' = Account(cycle, glLog')
    /\ UNCHANGED <<inputs, ffi, alive, realized, gl_state, state_map, renderQueued, nextId,
                   glObjects, glDeleted, realizeCount>>

\* the second lock of the state: as_mut().unwrap() and the write; the unwrap panics when
\* the state is gone
SetUniformB_Store ==
    /\ variant = VariantB
    /\ setCall.pc = "unlocked"
    /\ IF gl_state.present
       THEN /\ gl_state' = StoreUniform(gl_state, setCall.name, setCall.location,
                                        setCall.value)
            /\ last' = LastOp("set_uniform", FALSE, setCall.name, setCall.value, "true")
            /\ setCall' = Idle
       ELSE /\ last' = LastOp("set_uniform", FALSE, setCall.name, setCall.value, "panic")
            /\ setCall' = [setCall EXCEPT !.pc = "panicked"]
            /\ UNCHANGED gl_state
    /\ glLog' = <<>>
    /\ cycle' = Account(cycle, glLog')
    /\ UNCHANGED <<inputs, ffi, alive, realized, state_map, renderQueued, nextId,
                   glObjects, glDeleted, realizeCount>>

InitInterleave == Init /\ variant = VariantB

\* the widget's handlers on the main thread and the call's critical sections on its own
\* thread, in any order; nothing is followed past a panic
NextInterleave ==
    \/ \E name \in Names, value \in Values : SetUniformB_Lookup(name, value)
    \/ SetUniformB_Check
    \/ SetUniformB_Store
    \/ setCall.pc # "panicked" /\ RealizeB
    \/ setCall.pc # "panicked" /\ RenderB
    \/ setCall.pc # "panicked" /\ UnrealizeB

SpecInterleave == InitInterleave /\ [][NextInterleave]_vars

(* ------------------------------ dispose -------------------------------- *)

\* the last strong reference to the ShaderArea goes away; a realized widget is
\* rooted and kept alive by its parent, so this happens only while unrealized
Drop ==
    /\ variant = VariantA
    /\ alive
    /\ ~realized
    /\ alive' = FALSE
    /\ gl_state' = None
    /\ glLog' = <<>>
    /\ last' = LastOp("drop", FALSE, "", NoValue, "")
    /\ UNCHANGED <<inputs, ffi, setCall, realized, state_map, renderQueued, nextId, glObjects, glDeleted,
                   cycle, realizeCount>>

(* --------------------------- FFI constructor --------------------------- *)

\* shaderarea init_opengl: opens libepoxy.so.0 and loads every entry point, at each call
init_opengl(loads) == loads + 1

\* gtk_gl_shaders_shader_area_new called for one more surface: touches no resolver
ConstructA ==
    /\ variant = VariantA
    /\ constructed < MaxConstruct
    /\ constructed' = constructed + 1
    /\ UNCHANGED <<setCall, inputs, glLoads, rawUniforms, alive, realized, gl_state, state_map,
                   renderQueued, nextId, glObjects, glDeleted, glLog, last, cycle,
                   realizeCount>>

\* gtk_gl_shaders_new_area_for_shader_with_uniforms called for one more surface
ConstructB ==
    /\ variant = VariantB
    /\ constructed < MaxConstruct
    /\ constructed' = constructed + 1
    /\ glLoads' = init_opengl(glLoads)
    /\ UNCHANGED <<setCall, inputs, rawUniforms, alive, realized, gl_state, state_map,
                   renderQueued, nextId, glObjects, glDeleted, glLog, last, cycle,
                   realizeCount>>

(* --------------------------- uniform parsing --------------------------- *)

\* f64 -> f32 (v as f32, str::parse::<f32>): the one modelled double that no f32 holds
\* rounds to its neighbour, every other modelled number is kept
NarrowF32(v) == IF v = 2^24 + 1 THEN 2^24 ELSE v

\* the vector <<1, .., n>>
Components(n) == [k \in 1..n |-> k]

\* values a GVariant dictionary entry can carry: a double, an array of doubles, an
\* int32, an array of int32, a string
RawValuesA ==
    { [type |-> "d", data |-> <<5>>], [type |-> "d", data |-> <<2^24 + 1>>],
      [type |-> "i", data |-> <<7>>], [type |-> "s", data |-> <<>>] }
    \cup { [type |-> t, data |-> Components(n)] : t \in {"ad", "ai"}, n \in 0..MaxComponents }

\* one comma-separated token of a uniform spec string: a number or something else
Token(num, v) == [num |-> num, v |-> v]

\* the token lists 1,..,n and one list that starts with a token that is no number
TokenLists ==
    { [k \in 1..n |-> Token(TRUE, k)] : n \in 0..MaxComponents }
    \cup { <<Token(FALSE, 0), Token(TRUE, 1), Token(TRUE, 2)>> }

\* "name:type:values" entries of a uniform spec string; parts counts the ':' fields
RawValuesB ==
    { [parts |-> 3, type |-> t, data |-> d] :
          t \in {"f", "v2", "v3", "v4", "i", "zz"}, d \in TokenLists }
    \cup { [parts |-> p, type |-> "f", data |-> <<Token(TRUE, 1)>>] : p \in {2, 4} }

\* the uniforms argument: null, a GVariant that is no a{sv} dictionary, or entries
RawInputs(values) ==
    { NullUniforms, [kind |-> "invalid", entries |-> <<>>] }
    \cup { [kind |-> "dict", entries |-> e] :
               e \in UNION { [D -> values] : D \in SUBSET Names } }

FloatKind(n) == IF n = 1 THEN "Float" ELSE IF n = 2 THEN "Vec2"
                ELSE IF n = 3 THEN "Vec3" ELSE "Vec4"

IntKind(n) == IF n = 1 THEN "Int" ELSE IF n = 2 THEN "IVec2"
              ELSE IF n = 3 THEN "IVec3" ELSE "IVec4"

\* shader_area parse_uniforms: the entries it keeps
AcceptedA(e) ==
    \/ e.type \in {"d", "i"}
    \/ e.type \in {"ad", "ai"} /\ Len(e.data) \in 2..4

\* shader_area parse_uniforms: the Uniform built from a kept entry
ConvertA(e) ==
    IF e.type \in {"d", "ad"}
    THEN Uniform(FloatKind(Len(e.data)), [k \in 1..Len(e.data) |-> NarrowF32(e.data[k])])
    ELSE Uniform(IntKind(Len(e.data)), e.data)

parse_uniforms(raw) ==
    IF raw.kind # "dict" THEN EmptyMap
    ELSE [n \in { m \in DOMAIN raw.entries : AcceptedA(raw.entries[m]) }
            |-> ConvertA(raw.entries[n])]

\* shaderarea parse_uniform_spec: the tokens that parse as f32, in order
ParsedValues(e) ==
    LET nums == SelectSeq(e.data, LAMBDA t : t.num)
    IN  [k \in 1..Len(nums) |-> NarrowF32(nums[k].v)]

\* values.get(k).copied().unwrap_or(0.0), k counted from 1
GetOrZero(values, k) == IF k <= Len(values) THEN values[k] ELSE 0

\* shaderarea parse_uniform_spec: the entries it keeps
AcceptedB(e) == e.parts = 3 /\ e.type \in {"f", "v2", "v3", "v4", "i"}

\* shaderarea parse_uniform_spec: the UniformValue built from a kept entry
ConvertB(e) ==
    LET values == ParsedValues(e)
        n == IF e.type = "v2" THEN 2 ELSE IF e.type = "v3" THEN 3
             ELSE IF e.type = "v4" THEN 4 ELSE 1
    IN  Uniform(IF e.type = "i" THEN "Int" ELSE FloatKind(n),
                [k \in 1..n |-> GetOrZero(values, k)])

parse_uniform_spec(raw) ==
    IF raw.kind # "dict" THEN EmptyMap
    ELSE [n \in { m \in DOMAIN raw.entries : AcceptedB(raw.entries[m]) }
            |-> ConvertB(raw.entries[n])]

\* gtk_gl_shaders_shader_area_new: parses the uniforms and builds the surface
NewShaderArea ==
    /\ variant = VariantA
    /\ constructed = 0
    /\ constructed' = 1
    /\ initUniforms' = parse_uniforms(rawUniforms)
    /\ last' = LastOp("new", FALSE, "", NoValue, "")
    /\ UNCHANGED <<setCall, variant, shader, declared, texSources, glLoads, rawUniforms, alive,
                   realized, gl_state, state_map, renderQueued, nextId, glObjects,
                   glDeleted, glLog, cycle, realizeCount>>

\* gtk_gl_shaders_new_area_for_shader_with_uniforms: loads GL, parses, builds
NewAreaForShader ==
    /\ variant = VariantB
    /\ constructed = 0
    /\ constructed' = 1
    /\ glLoads' = init_opengl(glLoads)
    /\ initUniforms' = parse_uniform_spec(rawUniforms)
    /\ last' = LastOp("new", FALSE, "", NoValue, "")
    /\ UNCHANGED <<setCall, variant, shader, declared, texSources, rawUniforms, alive,
                   realized, gl_state, state_map, renderQueued, nextId, glObjects,
                   glDeleted, glLog, cycle, realizeCount>>

\* before the FFI constructor ran: its uniforms argument is any modelled raw input
InitParse ==
    /\ variant \in Variants
    /\ rawUniforms \in RawInputs(IF variant = VariantA THEN RawValuesA ELSE RawValuesB)
    /\ setCall = Idle
    /\ shader = "ok"
    /\ declared = {"x"}
    /\ texSources = <<>>
    /\ initUniforms = EmptyMap
    /\ alive = TRUE
    /\ realized = FALSE
    /\ gl_state = None
    /\ state_map = FALSE
    /\ renderQueued = FALSE
    /\ nextId = 1
    /\ glObjects = {}
    /\ glDeleted = {}
    /\ glLog = <<>>
    /\ last = LastOp("", FALSE, "", NoValue, "")
    /\ cycle = NewCycle(FALSE, <<>>)
    /\ realizeCount = 0
    /\ glLoads = 0
    /\ constructed = 0

NextParse == NewShaderArea \/ NewAreaForShader

SpecParse == InitParse /\ [][NextParse]_vars

(* ------------------------ every uniform variant ------------------------ *)

\* one value of each of the eight Uniform variants
AllValues ==
    { Uniform(FloatKind(n), Components(n)) : n \in 1..4 }
    \cup { Uniform(IntKind(n), [k \in 1..n |-> 6 + k]) : n \in 1..4 }

\* a surface without textures whose shader declares x and y and whose initial
\* uniforms take any of the eight variants
InitApply ==
    /\ variant \in Variants
    /\ shader = "ok"
    /\ declared = Names
    /\ texSources = <<>>
    /\ initUniforms \in UNION { [D -> AllValues] : D \in SUBSET Names }
    /\ alive = TRUE
    /\ realized = FALSE
    /\ gl_state = None
    /\ state_map = FALSE
    /\ renderQueued = FALSE
    /\ nextId = 1
    /\ glObjects = {}
    /\ glDeleted = {}
    /\ glLog = <<>>
    /\ last = LastOp("new", FALSE, "", NoValue, "")
    /\ cycle = NewCycle(FALSE, <<>>)
    /\ realizeCount = 0
    /\ glLoads = LoadsAfterNew
    /\ constructed = 1
    /\ rawUniforms = NullUniforms
    /\ setCall = Idle

\* the surface is realized and rendered
NextApply == RealizeA \/ RealizeB \/ RenderA \/ RenderB

SpecApply == InitApply /\ [][NextApply]_vars

(* ------------------------------- Next ---------------------------------- *)

Next ==
    \/ RealizeA
    \/ RealizeB
    \/ UnrealizeA
    \/ UnrealizeB
    \/ RenderA
    \/ RenderB
    \/ \E name \in Names, value \in Values : SetUniformA(name, value)
    \/ \E name \in Names, value \in Values : SetUniformB(name, value)
    \/ FfiSetUniformNull
    \/ Drop

Spec == Init /\ [][Next]_vars

\* one surface with one texture, in a process that goes on constructing surfaces
InitConstruct ==
    /\ Init
    /\ shader = "ok"
    /\ texSources = <<"ok">>
    /\ declared = {"x", "tex0"}
    /\ initUniforms = FixedUniforms

NextConstruct == Next \/ ConstructA \/ ConstructB

SpecConstruct == InitConstruct /\ [][NextConstruct]_vars

TypeOK ==
    /\ variant \in Variants
    /\ alive \in BOOLEAN
    /\ realized \in BOOLEAN
    /\ gl_state.present \in BOOLEAN

(* ======================== lifecycle properties ========================= *)

\* texture sources that decode
LoadedCount == Cardinality({ k \in DOMAIN texSources : texSources[k] = "ok" })

\* the handles of one activation were all created and all deleted
Symmetric ==
    /\ cycle.created = cycle.deleted
    /\ cycle.created.program = 1
    /\ cycle.created.vao = 1
    /\ cycle.created.texture = LoadedCount

\* C1 as stated: after every Activate -> Render* -> Deactivate the allocations equal the
\* deallocations, 1 program, 1 vertex array and k textures each way.
C1_AsStated == last.op = "unrealize" => Symmetric

\* C1 (amended): when neither the Activate nor the Deactivate met a context error and the
\* surface's owner is alive, every object the activation created is deleted by the
\* deactivation: 1 program, 1 vertex array, k textures (k = sources that decoded) each way.
C1_LifecycleSymmetry ==
    (/\ last.op = "unrealize"
     /\ ~last.err
     /\ ~cycle.realizeErr
     /\ alive)
    => Symmetric

\* a clean cycle over three sources of which one failed to decode
C1_Witness ==
    /\ last.op = "unrealize"
    /\ ~last.err
    /\ ~cycle.realizeErr
    /\ alive
    /\ Len(texSources) = 3
    /\ cycle.created.texture = 2
    /\ cycle.deleted.texture = 2

\* C2 as stated: the render state is present exactly while the surface is realized.
C2_AsStated == gl_state.present <=> realized

\* C2 (amended): the render state is absent before the first realize, present after every
\* realize that met no context error (owner alive), absent after every unrealize that met no
\* context error; a realize or unrealize that met a context error leaves it as it was, and
\* render and set_uniform never change whether it is present.
C2_StatePresence ==
    /\ [](realizeCount = 0 => ~gl_state.present)
    /\ [][ /\ (last'.op = "realize" /\ ~last'.err /\ alive) => gl_state'.present
           /\ (last'.op = "unrealize" /\ ~last'.err) => ~gl_state'.present
           /\ (last'.op \in {"realize", "unrealize"} /\ last'.err) => gl_state' = gl_state
           /\ (last'.op \in {"render", "set_uniform"}) => gl_state'.present = gl_state.present
         ]_vars

\* an unrealize that met a context error left the state of the earlier realize in place
C2_Witness ==
    /\ last.op = "unrealize"
    /\ last.err
    /\ ~realized
    /\ gl_state.present

(* ====================== uniform registry properties ==================== *)

\* the (location, components) pairs of the glUniform* calls in a call list
Uploads(log) == { <<log[k].location, log[k].args>> : k \in CallsOf(log, "Uniform") }

\* a frame uploads every registry entry once, at its location, with the entry's entry
\* point and components, and uploads nothing else
UploadsRegistry(log, state) ==
    /\ Cardinality(CallsOf(log, "Uniform")) = Cardinality(DOMAIN state.uniforms)
    /\ \A n \in DOMAIN state.uniforms :
         \E k \in CallsOf(log, "Uniform") :
            /\ log[k].location = state.uniforms[n].location
            /\ log[k].fn = UniformFn(state.uniforms[n].value)
            /\ log[k].args = state.uniforms[n].value.data

\* the registry holds only construction-time values
SeededOnly(state) ==
    \A n \in DOMAIN state.uniforms :
        n \in DOMAIN initUniforms /\ state.uniforms[n].value = initUniforms[n]

C4_AsStated ==
    [][ (/\ variant = VariantA
         /\ last.op = "set_uniform"
         /\ last.result = "not_rendered"
         /\ ~realized
         /\ last'.op = "realize"
         /\ ~last'.err
         /\ alive
         /\ shader = "ok"
         /\ last.name \in declared)
        => /\ last.name \in DOMAIN gl_state'.uniforms
           /\ gl_state'.uniforms[last.name].value = last.value
      ]_vars

\* the surface is Active for a set_uniform call
Active == gl_state.present /\ (variant = VariantB => state_map)

\* C5: on an Active surface a set of a name the program declares stores the value at the
\* name's location; every frame uploads exactly the registry (so the last value written) and
\* leaves the registry as it was.
C5_UniformRoundTrip ==
    [][ /\ (/\ last'.op = "set_uniform"
            /\ Active
            /\ ~last'.err
            /\ shader = "ok"
            /\ last'.name \in declared)
           => /\ last'.name \in DOMAIN gl_state'.uniforms
              /\ gl_state'.uniforms[last'.name] = UniformInfo(LocOf(last'.name), last'.value)
        /\ (last'.op = "render" /\ ~last'.err /\ gl_state.present)
           => /\ UploadsRegistry(glLog', gl_state)
              /\ gl_state' = gl_state
      ]_vars

\* a frame uploaded a value that a set_uniform call wrote
C5_Witness ==
    /\ last.op = "render"
    /\ ~last.err
    /\ gl_state.present
    /\ \E n \in DOMAIN gl_state.uniforms :
         /\ (n \notin DOMAIN initUniforms \/ initUniforms[n] # gl_state.uniforms[n].value)
         /\ <<LocOf(n), gl_state.uniforms[n].value.data>> \in Uploads(glLog)

\* C6 as stated: a set on an Active surface reuses a cached location without a lookup and,
\* when the location is >= 0, overwrites the value, keeps the location and requests a redraw.
C6_AsStated ==
    [][ (/\ last'.op = "set_uniform"
         /\ Active
         /\ ~last'.err
         /\ ResolveLocation(glObjects, gl_state, last'.name) >= 0)
        => /\ (last'.name \in DOMAIN gl_state.uniforms
                 => CallsOf(glLog', "GetUniformLocation") = {})
           /\ last'.name \in DOMAIN gl_state'.uniforms
           /\ gl_state'.uniforms[last'.name] =
                UniformInfo(ResolveLocation(glObjects, gl_state, last'.name), last'.value)
           /\ renderQueued'
      ]_vars

\* C7: a set on an Active surface of a name that is neither in the registry nor declared by
\* the program changes nothing: the render state and the redraw request stay as they were,
\* nothing is created or deleted, and the call returns normally.
C7_UnknownUniformLeavesRegistry ==
    [][ (/\ last'.op = "set_uniform"
         /\ Active
         /\ last'.name \notin DOMAIN gl_state.uniforms
         /\ GetUniformLocation(glObjects, gl_state.program, last'.name) < 0)
        => /\ gl_state' = gl_state
           /\ renderQueued' = renderQueued
           /\ initUniforms' = initUniforms
           /\ glObjects' = glObjects
           /\ last'.result \in {"unused", "false", "error"}
      ]_vars

\* a set of an undeclared, unknown name reached the location check on an Active surface
C7_Witness ==
    /\ last.op = "set_uniform"
    /\ ~last.err
    /\ Active
    /\ last.result \in {"unused", "false"}
    /\ last.name \notin declared
    /\ last.name \notin DOMAIN gl_state.uniforms
    /\ gl_state.uniforms # EmptyMap

\* C8: no registry entry has a negative location; after an activation the registry holds
\* exactly the initial names the linked program declares, and the activation succeeded.
C8_NoNegativeLocation ==
    /\ \A n \in DOMAIN gl_state.uniforms : gl_state.uniforms[n].location >= 0
    /\ (last.op = "realize" /\ ~last.err /\ alive)
       => /\ gl_state.present
          /\ DOMAIN gl_state.uniforms =
               { n \in DOMAIN initUniforms : shader = "ok" /\ n \in declared }

\* an activation dropped an initial name the program lacks and kept another
C8_Witness ==
    /\ last.op = "realize"
    /\ ~last.err
    /\ gl_state.present
    /\ gl_state.uniforms # EmptyMap
    /\ DOMAIN gl_state.uniforms # DOMAIN initUniforms

(* ========================= texture properties ========================== *)

\* texture units a call list selects
UnitsUsed(log) == { log[k].a : k \in CallsOf(log, "ActiveTexture") }

\* the call list binds texture id right after selecting unit i
BindsAt(log, i, id) ==
    \E k \in CallsOf(log, "ActiveTexture") :
        /\ log[k].a = i
        /\ k + 1 \in CallsOf(log, "BindTexture")
        /\ log[k + 1].a = id

SamplersDeclared(n) == shader = "ok" /\ \A i \in 0..(n - 1) : SamplerName(i) \in declared

\* C9: with three sources that decode, the activation stores three textures, uploads texture
\* i on unit i and (for a program declaring tex0..tex2) sets sampler tex{i} to i; every
\* frame binds texture i to unit i.
C9_TextureIndexing ==
    texSources = <<"ok", "ok", "ok">>
    => /\ (last.op = "realize" /\ ~last.err /\ alive)
          => /\ Len(gl_state.textures) = 3
             /\ \A i \in 0..2 : BindsAt(glLog, i, gl_state.textures[i + 1])
             /\ SamplersDeclared(3)
                  => \A i \in 0..2 : <<LocOf(SamplerName(i)), <<i>>>> \in Uploads(glLog)
       /\ (last.op = "render" /\ ~last.err /\ gl_state.present)
          => /\ Len(gl_state.textures) = 3
             /\ UnitsUsed(glLog) = 0..2
             /\ \A i \in 0..2 : BindsAt(glLog, i, gl_state.textures[i + 1])

\* a frame of a surface with three textures and a program declaring the three samplers
C9_Witness ==
    /\ texSources = <<"ok", "ok", "ok">>
    /\ SamplersDeclared(3)
    /\ last.op = "render"
    /\ ~last.err
    /\ gl_state.present
    /\ UnitsUsed(glLog) = 0..2

\* C10 as stated: with three sources of which the second does not decode, the activation
\* stores two textures on units 0 and 1 and numbers the samplers of the survivors tex0 and
\* tex1; the gap is kept neither as a unit nor as a sampler index.
C10_AsStated ==
    (/\ texSources = <<"ok", "bad", "ok">>
     /\ SamplersDeclared(3)
     /\ last.op = "realize"
     /\ ~last.err
     /\ alive)
    => /\ Len(gl_state.textures) = 2
       /\ UnitsUsed(glLog) = 0..1
       /\ \A i \in 0..1 : BindsAt(glLog, i, gl_state.textures[i + 1])
       /\ { u \in Uploads(glLog) : u[1] \in { LocOf(SamplerName(i)) : i \in 0..(MaxTex - 1) } }
            = { <<LocOf(SamplerName(i)), <<i>>>> : i \in 0..1 }

(* ========================== frame properties =========================== *)

\* the handles a render state holds
HandlesOf(state) ==
    IF state.present
    THEN {state.program, state.vao} \cup { state.textures[k] : k \in 1..Len(state.textures) }
    ELSE {}

\* the ids of the live GL objects
LiveIds(objs) == { o.id : o \in objs }

\* the last handler was a render that met no context error and found a render state
Drawn == last.op = "render" /\ ~last.err /\ gl_state.present

\* C21: one render of an Active surface without context error issues exactly one draw
\* call, one texture binding per stored texture and one uniform upload per registry
\* entry; with a shader that declares no uniform and with no texture the activation
\* stores a state and the frame is one draw call, no binding and no upload.
C21_FrameCallCounts ==
    /\ Drawn
       => /\ Cardinality(CallsOf(glLog, "DrawArrays")) = 1
          /\ Cardinality(CallsOf(glLog, "BindTexture")) = Len(gl_state.textures)
          /\ Cardinality(CallsOf(glLog, "ActiveTexture")) = Len(gl_state.textures)
          /\ Cardinality(CallsOf(glLog, "Uniform")) = Cardinality(DOMAIN gl_state.uniforms)
    /\ (last.op = "realize" /\ ~last.err /\ alive /\ declared = {} /\ texSources = <<>>)
       => /\ gl_state.present
          /\ gl_state.textures = <<>>
          /\ DOMAIN gl_state.uniforms = {}

\* a frame of a surface whose shader declares no uniform and that has no texture
C21_Witness ==
    /\ Drawn
    /\ declared = {}
    /\ texSources = <<>>
    /\ Cardinality(CallsOf(glLog, "DrawArrays")) = 1
    /\ CallsOf(glLog, "BindTexture") = {}
    /\ CallsOf(glLog, "Uniform") = {}

\* the position of the one call named c in the log
IndexOf(log, c) == CHOOSE k \in CallsOf(log, c) : TRUE

\* the calls of a frame come in the order clear, program bind and uploads, vertex array
\* bind, texture binds, one 4-vertex triangle-strip draw, flush
FrameOrder(log, state) ==
    /\ Len(log) >= 6
    /\ log[1].call = "ClearColor"
    /\ log[2].call = "Clear"
    /\ log[3] = Call1("UseProgram", state.program)
    /\ Cardinality(CallsOf(log, "BindVertexArray")) = 1
    /\ Cardinality(CallsOf(log, "DrawArrays")) = 1
    /\ log[IndexOf(log, "BindVertexArray")].a = state.vao
    /\ \A k \in CallsOf(log, "Uniform") : 3 < k /\ k < IndexOf(log, "BindVertexArray")
    /\ \A k \in CallsOf(log, "ActiveTexture") \cup CallsOf(log, "BindTexture") :
           IndexOf(log, "BindVertexArray") < k /\ k < IndexOf(log, "DrawArrays")
    /\ IndexOf(log, "DrawArrays") = Len(log) - 1
    /\ log[Len(log) - 1].mode = "TRIANGLE_STRIP"
    /\ log[Len(log) - 1].first = 0
    /\ log[Len(log) - 1].count = 4
    /\ log[Len(log)] = Call0("Flush")

\* C22 as stated: every render of an Active surface without context error clears the
\* colour buffer to transparent black (0,0,0,0), then applies the registry, binds the
\* vertex array, binds each texture, draws one 4-vertex triangle strip and flushes, with
\* no upload and no texture bind after the draw.
C22_AsStated ==
    Drawn => /\ FrameOrder(glLog, gl_state)
             /\ glLog[1].args = <<0, 0, 0, 0>>

\* the render state has every part: a program object, a vertex array, one live texture
\* object per stored handle, a registry of resolved locations, and nothing deleted
Complete(state) ==
    /\ \E o \in glObjects : o.kind = "program" /\ o.id = state.program
    /\ \E o \in glObjects : o.kind = "vao" /\ o.id = state.vao
    /\ \A k \in 1..Len(state.textures) :
           \E o \in glObjects : o.kind = "texture" /\ o.id = state.textures[k]
    /\ Cardinality(HandlesOf(state)) = 2 + Len(state.textures)
    /\ \A n \in DOMAIN state.uniforms : state.uniforms[n].location >= 0
    /\ HandlesOf(state) \cap glDeleted = {}

\* C23: in every state a render or a set_uniform can run in, the render state is either
\* absent as a whole or present with program, vertex array, textures and registry all
\* built and none of its handles deleted; it appears in one realize step and goes in one
\* unrealize or drop step.
C23_AtomicState ==
    /\ gl_state.present => Complete(gl_state)
    /\ ~gl_state.present => gl_state = None
    /\ (last.op = "realize" /\ ~last.err /\ alive)
       => /\ gl_state.present
          /\ Len(gl_state.textures) = LoadedCount
          /\ HandlesOf(gl_state) \subseteq
              { e.a : e \in { glLog[k] : k \in CallsOf(glLog, "CreateProgram")
                                             \cup CallsOf(glLog, "GenVertexArrays")
                                             \cup CallsOf(glLog, "GenTextures") } }

\* a set_uniform that found a state with textures and registry entries in place
C23_Witness ==
    /\ last.op = "set_uniform"
    /\ gl_state.present
    /\ Len(gl_state.textures) = 2
    /\ DOMAIN gl_state.uniforms # {}
    /\ Complete(gl_state)

\* C27: a render, whether it drew, found no state or stopped on a context error, leaves
\* the render state as it was: same program, same vertex array, same texture list, same
\* registry entries (name, location, value); it creates and deletes no GL object.
C27_RenderKeepsState ==
    [][ last'.op = "render"
        => /\ gl_state' = gl_state
           /\ state_map' = state_map
           /\ glObjects' = glObjects
           /\ glDeleted' = glDeleted
           /\ nextId' = nextId ]_vars

\* a drawn frame after which the state still has its texture and its two entries
C27_Witness ==
    /\ Drawn
    /\ Len(gl_state.textures) = 1
    /\ DOMAIN gl_state.uniforms = Names
    /\ CallsOf(glLog, "Uniform") # {}

\* the object names a frame hands to the driver
UsedIds(log) ==
    { log[k].a : k \in CallsOf(log, "UseProgram") \cup CallsOf(log, "BindVertexArray")
                       \cup CallsOf(log, "BindTexture") }

UnitAt(log, id) == log[(CHOOSE j \in CallsOf(log, "BindTexture") : log[j].a = id) - 1].a

\* the sampler values the activation writes right after it filled texture id
SamplerWrites(log, id) ==
    LET t == CHOOSE j \in CallsOf(log, "TexImage2D") : log[j].a = id
    IN  IF t + 2 <= Len(log) /\ log[t + 2].call = "Uniform" THEN {log[t + 2].args[1]} ELSE {}

\* C30 as stated: for every texture handle the activation stores, the unit it was
\* uploaded on and the unit written into its sampler uniform are the unit the render
\* handler binds that handle to, whichever sources failed to load.
C30_AsStated ==
    (last.op = "realize" /\ ~last.err /\ alive)
    => \A k \in 1..Len(gl_state.textures) :
           LET id == gl_state.textures[k]
               unit == UnitAt(BindTextures(gl_state.textures, 0), id)
           IN  /\ UnitAt(glLog, id) = unit
               /\ SamplerWrites(glLog, id) \subseteq {unit}

(* ====================== error handling properties ====================== *)

\* the arguments a of the calls named c, in the order the log has them
ArgsOf(log, c) ==
    LET sel == SelectSeq(log, LAMBDA e : e.call = c)
    IN  [k \in 1..Len(sel) |-> sel[k].a]

\* the positions (counted from 0) of the sources that decode, in input order
RECURSIVE LoadedIndexes(_)
LoadedIndexes(i) ==
    IF i >= Len(texSources) THEN <<>>
    ELSE (IF texSources[i + 1] = "ok" THEN <<i>> ELSE <<>>) \o LoadedIndexes(i + 1)

\* C11: an activation without context error goes through every texture source in input
\* order, whatever fails before it: it creates one texture object per source that decodes
\* and none for a source that does not, and the state it stores holds exactly those
\* handles, in input order, each one a live texture object (no placeholder).
C11_PartialTextureLoad ==
    (last.op = "realize" /\ ~last.err)
    => /\ Len(ArgsOf(glLog, "GenTextures")) = LoadedCount
       /\ ArgsOf(glLog, "TexImage2D") = ArgsOf(glLog, "GenTextures")
       /\ \A k \in 1..(LoadedCount - 1) :
              ArgsOf(glLog, "GenTextures")[k] < ArgsOf(glLog, "GenTextures")[k + 1]
       /\ variant = VariantA
          => [k \in 1..LoadedCount |-> ArgsOf(glLog, "ActiveTexture")[k]] = LoadedIndexes(0)
       /\ alive
          => /\ gl_state.present
             /\ gl_state.textures = ArgsOf(glLog, "GenTextures")
             /\ \A k \in 1..Len(gl_state.textures) :
                    GlObject("texture", gl_state.textures[k], FALSE) \in glObjects

\* an activation whose first source fails and whose later sources decode
C11_Witness ==
    /\ last.op = "realize"
    /\ ~last.err
    /\ alive
    /\ texSources = <<"bad", "ok", "ok">>
    /\ Len(gl_state.textures) = 2

\* C12: a render at which the context reports an error issues no GL call at all (no clear,
\* no uniform upload, no texture bind, no draw), whether or not a render state is present,
\* and leaves the render state and the GL objects as they were.
C12_RenderErrorShortCircuit ==
    [][ (last'.op = "render" /\ last'.err)
        => /\ glLog' = <<>>
           /\ gl_state' = gl_state
           /\ state_map' = state_map
           /\ glObjects' = glObjects
           /\ glDeleted' = glDeleted ]_vars

\* an errored render of a surface that holds a state with a texture and a uniform
C12_Witness ==
    /\ last.op = "render"
    /\ last.err
    /\ gl_state.present
    /\ gl_state.textures # <<>>
    /\ DOMAIN gl_state.uniforms # {}
    /\ glLog = <<>>

C14_DeactivateCleanup ==
    [][ /\ (last'.op = "unrealize" /\ last'.err)
           => /\ glLog' = <<>>
              /\ glObjects' = glObjects
              /\ glDeleted' = glDeleted
              /\ gl_state' = gl_state
        /\ (last'.op = "unrealize" /\ ~last'.err /\ realized)
           => /\ DeletedIds(glLog') = HandlesOf(gl_state)
              /\ gl_state.present
                 => /\ CallsOf(glLog', "DeleteProgram") # {}
                    /\ CallsOf(glLog', "DeleteVertexArrays") # {}
                    /\ (gl_state.textures # <<>>) <=> (CallsOf(glLog', "DeleteTextures") # {})
              /\ LiveIds(glObjects') = LiveIds(glObjects) \ HandlesOf(gl_state)
              /\ ~gl_state'.present
              /\ ~Active' ]_vars

\* an errored unrealize that left a state with two textures and all its objects behind
C14_Witness ==
    /\ last.op = "unrealize"
    /\ last.err
    /\ ~realized
    /\ gl_state.present
    /\ Len(gl_state.textures) = 2
    /\ HandlesOf(gl_state) \subseteq LiveIds(glObjects)
    /\ glLog = <<>>

\* C15: the render handler reports "handled" (Propagation::Stop) on every path: context
\* error, no render state, owner already dropped, and a frame that was drawn.
C15_RenderAlwaysHandled ==
    [][ (last'.op = "render" /\ realized)
        => /\ last'.result = "Stop"
           /\ (last'.err \/ ~gl_state.present \/ ~alive) => glLog' = <<>>
           /\ (~last'.err /\ gl_state.present /\ alive) => CallsOf(glLog', "DrawArrays") # {} ]_vars

\* a render after the owner was dropped: the weak reference is dead, nothing is drawn
C15_Witness ==
    /\ last.op = "render"
    /\ ~last.err
    /\ ~alive
    /\ glLog = <<>>
    /\ last.result = "Stop"

\* the set_uniform about to run finds its uniform: the surface has a state in the global
\* map and the name is in the registry or resolves in the program
Found(name) ==
    /\ name # ""
    /\ state_map
    /\ gl_state.present
    /\ ResolveLocation(glObjects, gl_state, name) >= 0

\* C19: shaderarea set_uniform (and its FFI wrappers) returns true exactly when the
\* uniform was found, and then the registry holds the value under the name; it returns
\* false for a name the program does not declare, for a surface with no state in the
\* global map and for a null argument, and then the registry is as it was.
C19_SetUniformResult ==
    [][ (variant = VariantB /\ last'.op = "set_uniform")
        => /\ last'.result \in {"true", "false"}
           /\ (last'.result = "true") <=> Found(last'.name)
           /\ last'.result = "true"
              => /\ gl_state'.present
                 /\ last'.name \in DOMAIN gl_state'.uniforms
                 /\ gl_state'.uniforms[last'.name].value = last'.value
           /\ last'.result = "false"
              => /\ gl_state' = gl_state
                 /\ state_map' = state_map ]_vars

\* a set_uniform on an Active surface that returned false for an undeclared name
C19_Witness ==
    /\ variant = VariantB
    /\ last.op = "set_uniform"
    /\ last.result = "false"
    /\ last.name \in Names \ declared
    /\ Active
    /\ realized

\* C20 as stated: every GL object that was allocated and not deleted is held by the
\* surface's current render state, none exists outside it (e.g. built by a realize whose
\* result was not stored, or left behind when a state is replaced), and the state never
\* holds a handle that was deleted.
C20_AsStated ==
    /\ LiveIds(glObjects) \subseteq HandlesOf(gl_state)
    /\ HandlesOf(gl_state) \cap glDeleted = {}

ExpectedUpload(kind) ==
    CASE kind = "Float" -> <<"Uniform1f", 1>>
      [] kind = "Vec2"  -> <<"Uniform2f", 2>>
      [] kind = "Vec3"  -> <<"Uniform3f", 3>>
      [] kind = "Vec4"  -> <<"Uniform4f", 4>>
      [] kind = "Int"   -> <<"Uniform1i", 1>>
      [] kind = "IVec2" -> <<"Uniform2i", 2>>
      [] kind = "IVec3" -> <<"Uniform3i", 3>>
      [] kind = "IVec4" -> <<"Uniform4i", 4>>

\* C26: in a drawn frame the program is bound before any upload, and every registry
\* entry gets exactly one upload call, at the entry's stored location, through the entry
\* point of its variant (1 to 4 floats, 1 to 4 ints), with the stored components in
\* order; nothing else is uploaded.
C26_TypedUploads ==
    Drawn
    => /\ glLog[3] = Call1("UseProgram", gl_state.program)
       /\ \A k \in CallsOf(glLog, "Uniform") : k > 3
       /\ Cardinality(CallsOf(glLog, "Uniform")) = Cardinality(DOMAIN gl_state.uniforms)
       /\ \A n \in DOMAIN gl_state.uniforms :
              LET entry == gl_state.uniforms[n]
                  at == { k \in CallsOf(glLog, "Uniform") : glLog[k].location = entry.location }
              IN  /\ Cardinality(at) = 1
                  /\ \A k \in at :
                         /\ glLog[k].fn = ExpectedUpload(entry.value.kind)[1]
                         /\ Len(glLog[k].args) = ExpectedUpload(entry.value.kind)[2]
                         /\ glLog[k].args = entry.value.data

\* a frame that uploads one integer vector and one float vector
C26_Witness ==
    /\ Drawn
    /\ DOMAIN gl_state.uniforms = Names
    /\ gl_state.uniforms["x"].value = Uniform("IVec4", <<7, 8, 9, 10>>)
    /\ gl_state.uniforms["y"].value = Uniform("Vec2", <<1, 2>>)
    /\ Cardinality(CallsOf(glLog, "Uniform")) = 2

\* C29: the vertex stage turns the four vertex indexes of the frame's draw call into the
\* quad corners 0->(0,0), 1->(1,0), 2->(0,1), 3->(1,1), uv is pos, and the clip-space
\* positions pos*2-1 are the four distinct corners of [-1,1]^2; the strip's two triangles
\* (0,1,2) and (1,2,3) share the diagonal from vertex 1 to vertex 2, so they cover the
\* whole surface.
C29_FullscreenQuad ==
    Drawn
    => LET draw == glLog[IndexOf(glLog, "DrawArrays")]
       IN  /\ draw.mode = "TRIANGLE_STRIP"
           /\ VertexIds(draw) = 0..3
           /\ [id \in VertexIds(draw) |-> VertexPos(id)]
                = [id \in 0..3 |-> IF id = 0 THEN <<0, 0>> ELSE IF id = 1 THEN <<1, 0>>
                                   ELSE IF id = 2 THEN <<0, 1>> ELSE <<1, 1>>]
           /\ \A id \in VertexIds(draw) : VertexUv(id) = VertexPos(id)
           /\ { VertexClip(id) : id \in VertexIds(draw) } = {-1, 1} \X {-1, 1}
           /\ VertexClip(1)[1] # VertexClip(2)[1] /\ VertexClip(1)[2] # VertexClip(2)[2]
           /\ VertexClip(0)[1] # VertexClip(3)[1] /\ VertexClip(0)[2] # VertexClip(3)[2]

\* a frame of a surface without textures drawn through the shaderarea handler
C29_Witness ==
    /\ Drawn
    /\ variant = VariantB
    /\ gl_state.textures = <<>>
    /\ VertexIds(glLog[IndexOf(glLog, "DrawArrays")]) = 0..3

(* ====================== shader compiler properties ===================== *)

\* the arguments b of the calls named c, as a set
ObjectsOf(log, c) == { log[k].b : k \in CallsOf(log, c) }

C16_AsStated == glLoads <= 1

\* C17 as stated: by the time a realize, render, unrealize or set_uniform of a surface
\* built through an FFI constructor runs, the resolver has loaded the entry points.
C17_AsStated ==
    last.op \in {"realize", "render", "unrealize", "set_uniform"} => glLoads >= 1

(* ===================== construction input properties =================== *)

\* the number of components the entry announces: its declared type in a spec string,
\* the length of the value in a dictionary (0 when the type is not supported)
DeclaredArity(e) ==
    IF variant = VariantA
    THEN (IF e.type \in {"d", "i"} THEN 1
          ELSE IF e.type \in {"ad", "ai"} /\ Len(e.data) \in 2..4 THEN Len(e.data) ELSE 0)
    ELSE (IF e.type \in {"f", "i"} THEN 1 ELSE IF e.type = "v2" THEN 2
          ELSE IF e.type = "v3" THEN 3 ELSE IF e.type = "v4" THEN 4 ELSE 0)

\* the entry has one of the eight shapes: float or int scalar, float or int vector of 2..4
WellFormed(e) ==
    /\ DeclaredArity(e) > 0
    /\ Len(e.data) = DeclaredArity(e)
    /\ variant = VariantB => e.parts = 3 /\ \A k \in 1..Len(e.data) : e.data[k].num

\* the value a well-formed entry stands for, narrowed to single precision
ShapeOf(e) ==
    LET n == DeclaredArity(e)
        int == e.type \in {"i", "ai"}
    IN  Uniform(IF int THEN IntKind(n) ELSE FloatKind(n),
                [k \in 1..n |-> IF variant = VariantA
                                THEN (IF int THEN e.data[k] ELSE NarrowF32(e.data[k]))
                                ELSE NarrowF32(e.data[k].v)])

\* C18 as stated: the constructor drops every initial uniform that has none of the eight
\* shapes (a vector of 0, 1 or 5 elements, too few components for the declared type, an
\* unsupported type) and keeps every well-formed entry of the same input with its value.
C18_AsStated ==
    (constructed = 1 /\ last.op = "new")
    => \A n \in DOMAIN rawUniforms.entries :
           IF WellFormed(rawUniforms.entries[n])
           THEN n \in DOMAIN initUniforms /\ initUniforms[n] = ShapeOf(rawUniforms.entries[n])
           ELSE n \notin DOMAIN initUniforms

(* ======================= re-activation properties ====================== *)

\* C32: re-activation resets the registry. After a second (or later) activation without
\* context error the surface holds a state whose program was created by that activation,
\* and the registry is exactly the construction-time uniforms the new program resolves:
\* each such name with its initial value and its location in the new program, and no
\* entry for any other name, whatever set_uniform stored during the earlier activation.
C32_ReactivationResetsRegistry ==
    (last.op = "realize" /\ ~last.err /\ alive /\ realizeCount > 1)
    => /\ gl_state.present
       /\ \E k \in CallsOf(glLog, "CreateProgram") : glLog[k].a = gl_state.program
       /\ gl_state.program \notin glDeleted
       /\ \A n \in Names \cup DOMAIN initUniforms \cup DOMAIN gl_state.uniforms :
            IF n \in DOMAIN initUniforms
               /\ GetUniformLocation(glObjects, gl_state.program, n) >= 0
            THEN /\ n \in DOMAIN gl_state.uniforms
                 /\ gl_state.uniforms[n] =
                      UniformInfo(GetUniformLocation(glObjects, gl_state.program, n),
                                  initUniforms[n])
            ELSE n \notin DOMAIN gl_state.uniforms

\* a second activation that seeded an initial uniform and dropped another name, while the
\* redraw requested by a set_uniform that stored a value during the first activation is
\* still pending
C32_Witness ==
    /\ last.op = "realize"
    /\ ~last.err
    /\ alive
    /\ realizeCount = 2
    /\ renderQueued
    /\ gl_state.present
    /\ gl_state.uniforms # EmptyMap
    /\ Names \ DOMAIN gl_state.uniforms # {}

(* ====================== resource safety properties ===================== *)

\* how many object names a call list hands to delete calls, repeats counted
DeleteArgCount(log) ==
    LET d == DeletedCount(log) IN d.program + d.vao + d.texture + d.shader

\* the object names the driver has handed out so far
AllocatedIds == 1..(nextId - 1)

\* C31: no double free. Whatever realize, render, set_uniform and unrealize handlers
\* ran before, a handler that issues delete calls names each handle once, names no
\* handle that an earlier handler already deleted, and names only handles the driver
\* handed out.
C31_NoDoubleFree ==
    [][ glLog' # glLog
        => /\ DeletedIds(glLog') \cap glDeleted = {}
           /\ DeleteArgCount(glLog') = Cardinality(DeletedIds(glLog'))
           /\ DeletedIds(glLog') \subseteq 1..(nextId' - 1) ]_vars

\* the second unrealize of a surface: the first one met a context error and deleted
\* nothing, the second activation stored a new state, and this unrealize deleted the
\* program, the vertex array and two textures of that state
C31_Witness ==
    /\ last.op = "unrealize"
    /\ ~last.err
    /\ realizeCount = 2
    /\ Cardinality(DeletedIds(glLog)) = 4
    /\ Cardinality(glDeleted) = 8
    /\ LiveIds(glObjects) # {}
    /\ glDeleted \subseteq AllocatedIds

(* ==================== set_uniform error properties ===================== *)

\* C35: ShaderArea::set_uniform on a surface holding a render state, when the context
\* reports an error after make_current, produces nothing: the render state with its
\* registry (names, locations, values) is as before, no GL call and so no location lookup
\* is made, the redraw request is as before, and nothing is created or deleted.
C35_SetUniformContextError ==
    [][ (variant = VariantA /\ last' # last /\ last'.op = "set_uniform" /\ last'.err)
        => /\ gl_state.present
           /\ gl_state' = gl_state
           /\ glLog' = <<>>
           /\ renderQueued' = renderQueued
           /\ glObjects' = glObjects
           /\ last'.result = "error" ]_vars

\* a set of a declared name the registry does not hold yet met a context error on a
\* realized surface: without the error it would have been looked up, stored and redrawn
C35_Witness ==
    /\ variant = VariantA
    /\ last.op = "set_uniform"
    /\ last.err
    /\ last.result = "error"
    /\ realized
    /\ gl_state.present
    /\ shader = "ok"
    /\ last.name \in declared
    /\ last.name \notin DOMAIN gl_state.uniforms
    /\ ~renderQueued
    /\ glLog = <<>>

(* ========================= global map properties ======================= *)

\* C34 as stated: STATE_MAP holds an entry for the surface only while the surface is
\* realized and has a render state; after any unrealize, one that met a context error
\* included, it holds none, and set_uniform on an unrealized surface returns false.
C34_AsStated ==
    variant = VariantB
    => /\ state_map => (realized /\ gl_state.present)
       /\ last.op = "unrealize" => ~state_map
       /\ (last.op = "set_uniform" /\ ~realized) => last.result = "false"

(* ======================= interleaving properties ======================= *)

\* C33 as stated: however a shaderarea::set_uniform call interleaves with an unrealize of
\* the same surface on another thread, the state is still present at the second
\* acquisition of the mutex, so the unwrap never hits an absent state.
C33_AsStated == setCall.pc # "panicked"

====
